---- MODULE Spec2Model ----
(***************************************************************************)
(* Model of the device-management layer of the DRA CPU driver: the three   *)
(* device managers (IndividualCoreManager, SocketGroupedManager,           *)
(* NUMAGroupedManager), their CreateSlices / AllocateCPUs operations, and  *)
(* the driver's PublishResources / prepareResourceClaim /                  *)
(* unprepareResourceClaim hooks that call them.                            *)
(***************************************************************************)
EXTENDS Integers, Sequences, FiniteSets, TLC

(***************************************************************************)
(* Program constants (pkg/device/consts.go).                               *)
(***************************************************************************)
maxDevicesPerResourceSlice == 128
cpuDevicePrefix == "cpudev"
cpuResourceQualifiedName == "dra.cpu/cpu"
cpuDeviceSocketGroupedPrefix == "cpudevsocket"
cpuDeviceNUMAGroupedPrefix == "cpudevnuma"

\* The SiblingCpuID of a CPU that has no hyperthread sibling.
NoSibling == -1

(***************************************************************************)
(* Bounds of the model.                                                    *)
(***************************************************************************)
\* CPUs of the small topologies (every reserved subset is enumerated).
MaxCPUs == 4
\* CPUs of the largest topology that catalog creation is run on.
MaxLargeCPUs == 300
\* UnsortedList()[0] may return any member: members 0..MaxPick of the sorted
\* listing (modulo the set's size) are tried.
MaxPick == 1
\* CPUs of the topologies the driver is run on.
DriverCPUs == 3
\* Allocation results of one claim.
MaxResults == 2
\* The largest CPU count one allocation result consumes.
MaxCount == 2
\* How many times CreateSlices is run on one manager.
MaxCreateRuns == 2

(***************************************************************************)
(* cpuset.CPUSet: a set of CPU IDs.  List() is the ascending listing.      *)
(***************************************************************************)
MinOf(S) == CHOOSE x \in S : \A y \in S : x <= y

MaxOf(S) == CHOOSE x \in S : \A y \in S : y <= x

List(S) ==
    IF S = {} THEN <<>>
    ELSE LET lo == MinOf(S)
             hi == MaxOf(S)
         IN  SelectSeq([i \in 1..(hi - lo + 1) |-> lo + i - 1], LAMBDA x : x \in S)

\* UnsortedList()[0]: Go map iteration order is unspecified, so the first
\* element is whichever member the runtime yields; pick selects it.
UnsortedListFirst(S, pick) == List(S)[(pick % Cardinality(S)) + 1]

(***************************************************************************)
(* fmt.Sprintf("%s%03d", prefix, n): the decimal digits of n, padded with  *)
(* zeros on the left to at least three digits, after the prefix.  A name   *)
(* is the pair of the prefix and the digit sequence (no prefix ends in a   *)
(* digit, so the pair determines the string and the string the pair).      *)
(***************************************************************************)
RECURSIVE Digits(_)
Digits(n) == IF n < 10 THEN <<n>> ELSE Append(Digits(n \div 10), n % 10)

Fmt03d(n) ==
    LET d == Digits(n)
    IN  IF Len(d) >= 3 THEN d ELSE [i \in 1..(3 - Len(d)) |-> 0] \o d

DeviceName(prefix, n) == <<prefix, Fmt03d(n)>>

(***************************************************************************)
(* cpuinfo.CPUTopology: SMTEnabled and CPUDetails (CPU ID -> CPUInfo).     *)
(***************************************************************************)
CPUInfo(cpu, core, socket, numa, sibling) ==
    [CpuID |-> cpu, CoreID |-> core, SocketID |-> socket, NUMANodeID |-> numa,
     UncoreCacheID |-> numa, SiblingCpuID |-> sibling, CoreType |-> "standard"]

\* The zero value of CPUInfo, which a Go map lookup of a missing key yields.
ZeroCPUInfo ==
    [CpuID |-> 0, CoreID |-> 0, SocketID |-> 0, NUMANodeID |-> 0,
     UncoreCacheID |-> 0, SiblingCpuID |-> 0, CoreType |-> ""]

CPUIDs(topo) == DOMAIN topo.CPUDetails

\* CPUDetails.Sockets(), CPUDetails.NUMANodes()
Sockets(topo) == {topo.CPUDetails[c].SocketID : c \in CPUIDs(topo)}

NUMANodes(topo) == {topo.CPUDetails[c].NUMANodeID : c \in CPUIDs(topo)}

\* CPUDetails.CPUsInSockets(id), CPUDetails.CPUsInNUMANodes(id)
CPUsInSockets(topo, id) == {c \in CPUIDs(topo) : topo.CPUDetails[c].SocketID = id}

CPUsInNUMANodes(topo, id) == {c \in CPUIDs(topo) : topo.CPUDetails[c].NUMANodeID = id}

(***************************************************************************)
(* Attribute builders.  A DeviceAttribute holds one typed value.           *)
(***************************************************************************)
IntValue(v) == [IntValue |-> v]

StringValue(v) == [StringValue |-> v]

BoolValue(v) == [BoolValue |-> v]

MakeIndividualAttributes(cpu) ==
    [k \in {"dra.cpu/numaNodeID", "dra.cpu/cacheL3ID", "dra.cpu/coreType",
            "dra.cpu/socketID", "dra.cpu/coreID", "dra.cpu/cpuID", "dra.net/numaNode"} |->
        CASE k = "dra.cpu/numaNodeID" -> IntValue(cpu.NUMANodeID)
          [] k = "dra.cpu/cacheL3ID" -> IntValue(cpu.UncoreCacheID)
          [] k = "dra.cpu/coreType" -> StringValue(cpu.CoreType)
          [] k = "dra.cpu/socketID" -> IntValue(cpu.SocketID)
          [] k = "dra.cpu/coreID" -> IntValue(cpu.CoreID)
          [] k = "dra.cpu/cpuID" -> IntValue(cpu.CpuID)
          [] k = "dra.net/numaNode" -> IntValue(cpu.NUMANodeID)]

\* Grouped attributes whose numCPUs counts every CPU of the socket.
MakeGroupedAttributes_WholeSocket(topo, socketID, allocatableCPUs) ==
    [k \in {"dra.cpu/socketID", "dra.cpu/numCPUs", "dra.cpu/smtEnabled"} |->
        CASE k = "dra.cpu/socketID" -> IntValue(socketID)
          [] k = "dra.cpu/numCPUs" -> IntValue(Cardinality(CPUsInSockets(topo, socketID)))
          [] k = "dra.cpu/smtEnabled" -> BoolValue(topo.SMTEnabled)]

MakeGroupedAttributes(topo, socketID, allocatableCPUs) ==
    [k \in {"dra.cpu/socketID", "dra.cpu/numCPUs", "dra.cpu/smtEnabled"} |->
        CASE k = "dra.cpu/socketID" -> IntValue(socketID)
          [] k = "dra.cpu/numCPUs" -> IntValue(Cardinality(allocatableCPUs))
          [] k = "dra.cpu/smtEnabled" -> BoolValue(topo.SMTEnabled)]

\* Go map assignment m[k] = v on a map held as a function.
MapPut(m, k, v) == [x \in DOMAIN m \cup {k} |-> IF x = k THEN v ELSE m[x]]

EmptyMap == [x \in {} |-> 0]

(***************************************************************************)
(* resourceapi.Device as CreateSlices builds it.  A nil                    *)
(* AllowMultipleAllocations is held as FALSE.                              *)
(***************************************************************************)
Device(name, attrs, capacity, multi) ==
    [Name |-> name, Attributes |-> attrs, Capacity |-> capacity,
     AllowMultipleAllocations |-> multi]

\* An index write that stores the neighbouring coordinate.
IndexWrite_OffByOne(name, id) == [name |-> name, id |-> id + 1]

\* One assignment mgr.deviceNameTo...[name] = id made by CreateSlices.
IndexWrite(name, id) == [name |-> name, id |-> id]

\* A chunking that hands back the whole sequence as one chunk.
Chunk_Whole(s, n) == <<s>>

\* slices.Collect(slices.Chunk(s, n)): consecutive sub-slices of at most n
\* elements, the last one possibly shorter.
Chunk(s, n) ==
    [j \in 1..((Len(s) + n - 1) \div n) |->
        SubSeq(s, (j - 1) * n + 1, IF j * n < Len(s) THEN j * n ELSE Len(s))]

(***************************************************************************)
(* IndividualCoreManager.CreateSlices                                      *)
(***************************************************************************)
\* availableCPUs built without the reservedCPUs test.
AvailableCPUs_Unfiltered(topo, resv) ==
    LET ids == List(CPUIDs(topo))
    IN  [i \in 1..Len(ids) |-> topo.CPUDetails[ids[i]]]

\* availableCPUs after sort.Slice by CpuID: the CPUInfo of every CPU of the
\* topology that is not reserved, ascending.
AvailableCPUs(topo, resv) ==
    LET ids == List({c \in CPUIDs(topo) : c \notin resv})
    IN  [i \in 1..Len(ids) |-> topo.CPUDetails[ids[i]]]

\* cpuInfoMap[id]: a Go map lookup, the zero value for a missing key.
CpuInfoMapGet(topo, id) ==
    IF id \in CPUIDs(topo) THEN topo.CPUDetails[id] ELSE ZeroCPUInfo

\* A grouping step without the reservedCPUs test on the sibling.
CoreGroupsStep_NoResvTest(topo, resv, avail, st, i) ==
    LET cpu == avail[i]
    IN  IF cpu.CpuID \in st.processedCpus THEN st
        ELSE IF cpu.SiblingCpuID = NoSibling
        THEN [processedCpus |-> st.processedCpus \cup {cpu.CpuID},
              coreGroups |-> Append(st.coreGroups, <<cpu>>)]
        ELSE [processedCpus |-> st.processedCpus \cup {cpu.CpuID, cpu.SiblingCpuID},
              coreGroups |-> Append(st.coreGroups,
                                    <<cpu, CpuInfoMapGet(topo, cpu.SiblingCpuID)>>)]

\* One iteration of the grouping loop, on availableCPUs[i]; st holds
\* processedCpus and coreGroups.
CoreGroupsStep(topo, resv, avail, st, i) ==
    LET cpu == avail[i]
    IN  IF cpu.CpuID \in st.processedCpus THEN st
        ELSE IF cpu.SiblingCpuID = NoSibling \/ cpu.SiblingCpuID \in resv
        THEN [processedCpus |-> st.processedCpus \cup {cpu.CpuID},
              coreGroups |-> Append(st.coreGroups, <<cpu>>)]
        ELSE [processedCpus |-> st.processedCpus \cup {cpu.CpuID, cpu.SiblingCpuID},
              coreGroups |-> Append(st.coreGroups,
                                    <<cpu, CpuInfoMapGet(topo, cpu.SiblingCpuID)>>)]

\* The grouping loop over availableCPUs[lo..hi], in order (the range is
\* halved so that the evaluation stays shallow).
RECURSIVE CoreGroupsLoop(_, _, _, _, _, _)
CoreGroupsLoop(topo, resv, avail, st, lo, hi) ==
    IF lo > hi THEN st
    ELSE IF lo = hi THEN CoreGroupsStep(topo, resv, avail, st, lo)
    ELSE LET mid == (lo + hi) \div 2
             left == CoreGroupsLoop(topo, resv, avail, st, lo, mid)
         IN  \* (left = left only makes the evaluation of the first half precede
             \* the second half's)
             IF left = left THEN CoreGroupsLoop(topo, resv, avail, left, mid + 1, hi)
             ELSE st

CoreGroups(topo, resv) ==
    LET avail == AvailableCPUs(topo, resv)
    IN  CoreGroupsLoop(topo, resv, avail, [processedCpus |-> {}, coreGroups |-> <<>>],
                       1, Len(avail)).coreGroups

\* The sort of coreGroups with the comparison turned round.
RECURSIVE InsertGroup_Descending(_, _)
InsertGroup_Descending(sorted, g) ==
    IF sorted = <<>> \/ sorted[Len(sorted)][1].CpuID >= g[1].CpuID
    THEN Append(sorted, g)
    ELSE Append(InsertGroup_Descending(SubSeq(sorted, 1, Len(sorted) - 1), g),
                sorted[Len(sorted)])

\* sort.Slice(coreGroups, by the first member's CpuID): insertion from the
\* tail.  The first members are distinct CPUs, so no two keys tie.
RECURSIVE InsertGroup(_, _)
InsertGroup(sorted, g) ==
    IF sorted = <<>> \/ sorted[Len(sorted)][1].CpuID <= g[1].CpuID
    THEN Append(sorted, g)
    ELSE Append(InsertGroup(SubSeq(sorted, 1, Len(sorted) - 1), g), sorted[Len(sorted)])

RECURSIVE SortGroupsLoop(_, _, _, _)
SortGroupsLoop(groups, acc, lo, hi) ==
    IF lo > hi THEN acc
    ELSE IF lo = hi THEN InsertGroup(acc, groups[lo])
    ELSE LET mid == (lo + hi) \div 2
             left == SortGroupsLoop(groups, acc, lo, mid)
         IN  IF left = left THEN SortGroupsLoop(groups, left, mid + 1, hi) ELSE acc

SortedCoreGroups(topo, resv) ==
    LET groups == CoreGroups(topo, resv)
    IN  SortGroupsLoop(groups, <<>>, 1, Len(groups))

\* The CPUs in the order the device loop visits them: group by group.
RECURSIVE GroupMembers(_, _, _)
GroupMembers(groups, lo, hi) ==
    IF lo > hi THEN <<>>
    ELSE IF lo = hi THEN groups[lo]
    ELSE LET mid == (lo + hi) \div 2
         IN  GroupMembers(groups, lo, mid) \o GroupMembers(groups, mid + 1, hi)

\* The device loop: devId counts from 0, one device and one index write per
\* CPU.
IndividualDevices(topo, resv) ==
    LET groups == SortedCoreGroups(topo, resv)
        cpus == GroupMembers(groups, 1, Len(groups))
    IN  [d \in 1..Len(cpus) |->
            [dev |-> Device(DeviceName(cpuDevicePrefix, d - 1),
                            MakeIndividualAttributes(cpus[d]), EmptyMap, FALSE),
             write |-> IndexWrite(DeviceName(cpuDevicePrefix, d - 1), cpus[d].CpuID)]]

IndividualCreateSlices(topo, resv) ==
    LET all == IndividualDevices(topo, resv)
        allDevices == [d \in 1..Len(all) |-> all[d].dev]
    IN  [writes |-> [d \in 1..Len(all) |-> all[d].write],
         slices |-> IF Len(allDevices) = 0 THEN <<>>
                    ELSE Chunk(allDevices, maxDevicesPerResourceSlice)]

(***************************************************************************)
(* SocketGroupedManager.CreateSlices                                       *)
(***************************************************************************)
Quantity(n) == [Value |-> n]

DeviceCapacity(n) == [k \in {cpuResourceQualifiedName} |-> Quantity(n)]

\* A socket loop without the skip of a socket that has no allocatable CPU.
SocketDevices_KeepEmpty(topo, resv) ==
    LET kept == List(Sockets(topo))
    IN  [i \in 1..Len(kept) |->
            LET socketID == kept[i]
                deviceName == DeviceName(cpuDeviceSocketGroupedPrefix, socketID)
                allocatableCPUs == CPUsInSockets(topo, socketID) \ resv
            IN  [dev |-> Device(deviceName,
                                MakeGroupedAttributes(topo, socketID, allocatableCPUs),
                                DeviceCapacity(Cardinality(allocatableCPUs)), TRUE),
                 write |-> IndexWrite(deviceName, socketID)]]

SocketDevices(topo, resv) ==
    LET socketIDs == List(Sockets(topo))
        \* the loop skips (continue) a socket with no allocatable CPU
        kept == SelectSeq(socketIDs, LAMBDA id : CPUsInSockets(topo, id) \ resv # {})
    IN  [i \in 1..Len(kept) |->
            LET socketID == kept[i]
                deviceName == DeviceName(cpuDeviceSocketGroupedPrefix, socketID)
                allocatableCPUs == CPUsInSockets(topo, socketID) \ resv
            IN  [dev |-> Device(deviceName,
                                MakeGroupedAttributes(topo, socketID, allocatableCPUs),
                                DeviceCapacity(Cardinality(allocatableCPUs)), TRUE),
                 write |-> IndexWrite(deviceName, socketID)]]

SocketCreateSlices(topo, resv) ==
    LET all == SocketDevices(topo, resv)
        devices == [d \in 1..Len(all) |-> all[d].dev]
    IN  [writes |-> [d \in 1..Len(all) |-> all[d].write],
         slices |-> IF Len(devices) = 0 THEN <<>> ELSE <<devices>>]

(***************************************************************************)
(* NUMAGroupedManager.CreateSlices.  pick stands for the unspecified       *)
(* order of allocatableCPUs.UnsortedList().                                *)
(***************************************************************************)
NUMADevices(topo, resv, pick) ==
    LET numaNodeIDs == List(NUMANodes(topo))
        kept == SelectSeq(numaNodeIDs, LAMBDA id : CPUsInNUMANodes(topo, id) \ resv # {})
    IN  [i \in 1..Len(kept) |->
            LET numaID == kept[i]
                deviceName == DeviceName(cpuDeviceNUMAGroupedPrefix, numaID)
                allocatableCPUs == CPUsInNUMANodes(topo, numaID) \ resv
                anyCPU == UnsortedListFirst(allocatableCPUs, pick)
                socketID == topo.CPUDetails[anyCPU].SocketID
                deviceAttributes ==
                    MapPut(MapPut(MakeGroupedAttributes(topo, socketID, allocatableCPUs),
                                  "dra.cpu/numaNodeID", IntValue(numaID)),
                           "dra.net/numaNode", IntValue(numaID))
            IN  [dev |-> Device(deviceName, deviceAttributes,
                                DeviceCapacity(Cardinality(allocatableCPUs)), TRUE),
                 write |-> IndexWrite(deviceName, numaID)]]

NUMACreateSlices(topo, resv, pick) ==
    LET all == NUMADevices(topo, resv, pick)
        devices == [d \in 1..Len(all) |-> all[d].dev]
    IN  [writes |-> [d \in 1..Len(all) |-> all[d].write],
         slices |-> IF Len(devices) = 0 THEN <<>> ELSE <<devices>>]

\* The DeviceManager the driver holds (cp.devMgr) is one of the three.
Modes == {"individual", "socket", "numa"}

CreateSlices(mode, topo, resv, pick) ==
    CASE mode = "individual" -> IndividualCreateSlices(topo, resv)
      [] mode = "socket" -> SocketCreateSlices(topo, resv)
      [] mode = "numa" -> NUMACreateSlices(topo, resv, pick)

\* The index after the index writes writes[lo..hi], applied in order.
RECURSIVE ApplyWrites(_, _, _, _)
ApplyWrites(idx, writes, lo, hi) ==
    IF lo > hi THEN idx
    ELSE IF lo = hi THEN MapPut(idx, writes[lo].name, writes[lo].id)
    ELSE LET mid == (lo + hi) \div 2
             left == ApplyWrites(idx, writes, lo, mid)
         IN  IF left = left THEN ApplyWrites(left, writes, mid + 1, hi) ELSE idx

(***************************************************************************)
(* Topologies the managers are bound to.  A topology of n CPUs is laid out *)
(* from its number of sockets and NUMA nodes (0: one per physical core)    *)
(* and its hyperthreading scheme: "none", "adjacent" (siblings c, c+1) or  *)
(* "split" (siblings c, c + n/2, as in the spec's 0-2 / 1-3 example).      *)
(***************************************************************************)
CoreOf(n, smt, c) ==
    CASE smt = "none" -> c
      [] smt = "adjacent" -> c \div 2
      [] smt = "split" -> IF c < 2 * (n \div 2) THEN c % (n \div 2) ELSE n \div 2

SiblingOf(n, smt, c) ==
    CASE smt = "none" -> NoSibling
      [] smt = "adjacent" ->
            IF c % 2 = 1 THEN c - 1 ELSE IF c + 1 < n THEN c + 1 ELSE NoSibling
      [] smt = "split" ->
            IF c < n \div 2 THEN c + (n \div 2)
            ELSE IF c < 2 * (n \div 2) THEN c - (n \div 2) ELSE NoSibling

NumCores(n, smt) == IF smt = "none" THEN n ELSE (n \div 2) + (n % 2)

GroupOf(n, smt, groups, c) ==
    IF groups = 0 THEN CoreOf(n, smt, c)
    ELSE (CoreOf(n, smt, c) * groups) \div NumCores(n, smt)

MkTopology(n, layout) ==
    [SMTEnabled |-> layout.smt # "none",
     CPUDetails |->
        [c \in 0..(n - 1) |->
            CPUInfo(c, CoreOf(n, layout.smt, c),
                    GroupOf(n, layout.smt, layout.sockets, c),
                    GroupOf(n, layout.smt, layout.numas, c),
                    SiblingOf(n, layout.smt, c))]]

SMTSchemes == {"none", "adjacent", "split"}

\* One or two sockets; NUMA nodes inside the sockets, equal to them, or one
\* node spanning both sockets (node interleaving).
SmallLayouts ==
    {[sockets |-> g[1], numas |-> g[2], smt |-> s] :
        g \in {<<1, 1>>, <<1, 2>>, <<2, 2>>, <<2, 1>>}, s \in SMTSchemes}

\* One socket and one NUMA node per physical core: the catalogs of the
\* grouped managers then grow with the topology.
LargeLayouts == {[sockets |-> 0, numas |-> 0, smt |-> s] : s \in SMTSchemes}

LargeSizes ==
    {maxDevicesPerResourceSlice - 1, maxDevicesPerResourceSlice,
     maxDevicesPerResourceSlice + 1, 2 * maxDevicesPerResourceSlice,
     2 * maxDevicesPerResourceSlice + 1, MaxLargeCPUs}

(***************************************************************************)
(* The collaborators of the managers that are not part of the device       *)
(* layer: the packing primitive and the allocation store.                  *)
(***************************************************************************)
\* cpumanager.TakeByTopologyNUMAPacked(topo, pool, n, packed): an exact-size
\* selection from the pool, or an error when the pool holds fewer than n
\* CPUs.  Which CPUs it prefers is left open: every selection of n CPUs of
\* the pool is a possible result.  The empty set of results is the error.
TakeByTopologyNUMAPacked(pool, n) == {cur \in SUBSET pool : Cardinality(cur) = n}

\* CPUAllocationStore.GetSharedCPUs: the CPUs of the node that are neither
\* reserved (the store is constructed with the reserved set) nor held by a
\* live claim allocation.
GetSharedCPUs(topo, resv, allocations) ==
    (CPUIDs(topo) \ resv) \ UNION {allocations[uid] : uid \in DOMAIN allocations}

\* CPUAllocationStore.AddResourceClaimAllocation / RemoveResourceClaimAllocation
AddResourceClaimAllocation(allocations, uid, cpus) == MapPut(allocations, uid, cpus)

RemoveResourceClaimAllocation(allocations, uid) ==
    [u \in DOMAIN allocations \ {uid} |-> allocations[u]]

(***************************************************************************)
(* AllocateCPUs.  An allocation result (DeviceRequestAllocationResult)     *)
(* holds Driver, Device and ConsumedCapacity (a map that may lack the CPU  *)
(* key).                                                                   *)
(***************************************************************************)
driverName == "dra.cpu"

foreignDriver == "dra.net"

AllocationResult(driver, device, consumed) ==
    [Driver |-> driver, Device |-> device, ConsumedCapacity |-> consumed]

\* v, ok := m[k]
MapGet(m, k) == IF k \in DOMAIN m THEN [ok |-> TRUE, v |-> m[k]] ELSE [ok |-> FALSE, v |-> 0]

\* A count that reads an absent consumed capacity as one CPU.
ClaimCPUCount_DefaultOne(alloc) ==
    IF cpuResourceQualifiedName \in DOMAIN alloc.ConsumedCapacity
    THEN alloc.ConsumedCapacity[cpuResourceQualifiedName].Value
    ELSE 1

\* claimCPUCount: the consumed capacity under the CPU key, 0 when absent.
ClaimCPUCount(alloc) ==
    IF cpuResourceQualifiedName \in DOMAIN alloc.ConsumedCapacity
    THEN alloc.ConsumedCapacity[cpuResourceQualifiedName].Value
    ELSE 0

\* The CPUs of the coordinate a grouped device name resolves to.
CPUsInCoordinate(mode, topo, id) ==
    IF mode = "socket" THEN CPUsInSockets(topo, id) ELSE CPUsInNUMANodes(topo, id)

Continue(cpus) == [kind |-> "continue", cpus |-> cpus, err |-> "nil"]

ReturnErr(err) == [kind |-> "return", cpus |-> {}, err |-> err]

\* One iteration of the loop over the claim's results: the possible
\* outcomes, given the CPUs accumulated so far (cpuAssignment, or the members
\* of claimCPUIDs), the outcome lk of the index lookup and the free pool
\* shared that getSharedCPUs() returns.  An outcome either continues the
\* loop with a new accumulated set or returns an error (with an empty set).
IndividualLoopBody(acc, alloc, lk) ==
    IF alloc.Driver # driverName THEN {Continue(acc)}
    ELSE IF ~lk.ok THEN {ReturnErr("device not found in device to CPU ID map")}
    ELSE {Continue(acc \cup {lk.v})}

\* A grouped loop body that takes from the coordinate's CPUs without asking
\* for the free pool.
GroupedLoopBody_NoLivePool(mode, topo, acc, alloc, lk, shared) ==
    IF alloc.Driver # driverName THEN {Continue(acc)}
    ELSE IF ~lk.ok THEN {ReturnErr("no valid ID found for device")}
    ELSE LET availableCPUsForDevice == CPUsInCoordinate(mode, topo, lk.v)
             taken == TakeByTopologyNUMAPacked(availableCPUsForDevice, ClaimCPUCount(alloc))
         IN  IF taken = {} THEN {ReturnErr("not enough cpus available to satisfy request")}
             ELSE {Continue(acc \cup cur) : cur \in taken}

\* A grouped loop body that drops the error of the packing primitive.
GroupedLoopBody_DropTakeErr(mode, topo, acc, alloc, lk, shared) ==
    IF alloc.Driver # driverName THEN {Continue(acc)}
    ELSE IF ~lk.ok THEN {ReturnErr("no valid ID found for device")}
    ELSE LET availableCPUsForDevice == shared \cap CPUsInCoordinate(mode, topo, lk.v)
             taken == TakeByTopologyNUMAPacked(availableCPUsForDevice, ClaimCPUCount(alloc))
         IN  IF taken = {} THEN {Continue(acc)}
             ELSE {Continue(acc \cup cur) : cur \in taken}

GroupedLoopBody(mode, topo, acc, alloc, lk, shared) ==
    IF alloc.Driver # driverName THEN {Continue(acc)}
    ELSE IF ~lk.ok THEN {ReturnErr("no valid ID found for device")}
    ELSE LET availableCPUsForDevice == shared \cap CPUsInCoordinate(mode, topo, lk.v)
             taken == TakeByTopologyNUMAPacked(availableCPUsForDevice, ClaimCPUCount(alloc))
         IN  IF taken = {} THEN {ReturnErr("not enough cpus available to satisfy request")}
             ELSE {Continue(acc \cup cur) : cur \in taken}

\* A loop body that passes over a device the index does not hold.
LoopBody_SkipUnknown(mode, topo, acc, alloc, lk, shared) ==
    IF ~lk.ok THEN {Continue(acc)}
    ELSE IF mode = "individual" THEN IndividualLoopBody(acc, alloc, lk)
    ELSE GroupedLoopBody(mode, topo, acc, alloc, lk, shared)

\* A loop body without the driver test: every result is resolved.
LoopBody_AnyDriver(mode, topo, acc, alloc, lk, shared) ==
    LET own == [alloc EXCEPT !.Driver = driverName]
    IN  IF mode = "individual" THEN IndividualLoopBody(acc, own, lk)
        ELSE GroupedLoopBody(mode, topo, acc, own, lk, shared)

LoopBody(mode, topo, acc, alloc, lk, shared) ==
    IF mode = "individual" THEN IndividualLoopBody(acc, alloc, lk)
    ELSE GroupedLoopBody(mode, topo, acc, alloc, lk, shared)

\* A loop exit that treats an empty accumulated set as a failure.
LoopExit_EmptyIsError(acc) ==
    IF Cardinality(acc) = 0 THEN [cpus |-> {}, err |-> "no CPU allocations for this driver"]
    ELSE [cpus |-> acc, err |-> "nil"]

\* After the loop: an empty accumulated set returns CPUSet{} and no error,
\* otherwise the accumulated set is returned.
LoopExit(acc) ==
    IF Cardinality(acc) = 0 THEN [cpus |-> {}, err |-> "nil"] ELSE [cpus |-> acc, err |-> "nil"]

\* AllocateCPUs run to completion on results[i..] with nothing interleaved
\* (the index idx and the free pool shared do not change during the call):
\* the set of possible (cpus, err) results.
RECURSIVE AllocateCPUsFrom(_, _, _, _, _, _, _)
AllocateCPUsFrom(mode, topo, idx, shared, results, i, acc) ==
    IF i > Len(results) THEN {LoopExit(acc)}
    ELSE UNION {IF o.kind = "return" THEN {[cpus |-> o.cpus, err |-> o.err]}
                ELSE AllocateCPUsFrom(mode, topo, idx, shared, results, i + 1, o.cpus) :
                    o \in LoopBody(mode, topo, acc, results[i],
                                   MapGet(idx, results[i].Device), shared)}

AllocateCPUs(mode, topo, idx, shared, results) ==
    AllocateCPUsFrom(mode, topo, idx, shared, results, 1, {})


(***************************************************************************)
(* State.                                                                  *)
(***************************************************************************)
VARIABLES
    cpuTopology,        \* mgr.cpuTopology: fixed at construction
    reservedCPUs,       \* mgr.reservedCPUs: fixed at construction
    devMgr,             \* which manager cp.devMgr is
    deviceNameToID,     \* mgr.deviceNameToCPUID / ...SocketID / ...NUMANodeID
    returned,           \* what the last completed CreateSlices returned
    createRuns,         \* completed CreateSlices calls
    lastCall,           \* the last AllocateCPUs call made on the manager alone
    publisher,          \* the PublishResources goroutine inside CreateSlices
    resourceClaimAllocations,   \* cpuAllocationStore: claim UID -> CPU set
    worker,             \* the goroutines serving Prepare/UnprepareResourceClaims
    fatal,              \* the Go runtime has ended the process
    event               \* what the last step returned to the kubelet, if it returned

mgrVars == <<cpuTopology, reservedCPUs, devMgr>>

driverVars == <<publisher, resourceClaimAllocations, worker, fatal, event>>

vars == <<cpuTopology, reservedCPUs, devMgr, deviceNameToID, returned, createRuns,
          lastCall, publisher, resourceClaimAllocations, worker, fatal, event>>

\* The claims the kubelet has calls in flight for, one goroutine each.
Workers == {"claim-a", "claim-b"}

NoCall == [called |-> FALSE, results |-> <<>>, shared |-> {}, cpus |-> {}, err |-> "nil"]

\* A goroutine: where it is (pc), how many results of its claim the loop of
\* AllocateCPUs has still to visit (left), and the CPUs accumulated (acc).
IdleWorker == [pc |-> "idle", left |-> 0, acc |-> {}]

\* The return of prepareResourceClaim or unprepareResourceClaim for claim
\* who: the error (or "nil") and the CPU set AllocateCPUs returned.
Returned(who, op, err, cpus) == [who |-> who, op |-> op, err |-> err, cpus |-> cpus]

NoEvent == Returned("", "none", "nil", {})

IdlePublisher == [pc |-> "idle", pending |-> <<>>, slices |-> <<>>]

\* New...Manager: the index is an empty map.  Start: a new allocation
\* store, no call in progress.
NewManager(mode, topo, resv) ==
    /\ devMgr = mode
    /\ cpuTopology = topo
    /\ reservedCPUs = resv
    /\ deviceNameToID = EmptyMap
    /\ returned = <<>>
    /\ createRuns = 0
    /\ lastCall = NoCall
    /\ publisher = IdlePublisher
    /\ resourceClaimAllocations = EmptyMap
    /\ worker = [w \in Workers |-> IdleWorker]
    /\ fatal = FALSE
    /\ event = NoEvent

\* CreateSlices as one call: every index write, then the return.
CreateSlicesCall ==
    /\ \E pick \in 0..MaxPick :
            LET r == CreateSlices(devMgr, cpuTopology, reservedCPUs, pick)
            IN  /\ deviceNameToID' = ApplyWrites(deviceNameToID, r.writes, 1, Len(r.writes))
                /\ returned' = r.slices
    /\ createRuns' = createRuns + 1
    /\ UNCHANGED mgrVars
    /\ UNCHANGED driverVars

(***************************************************************************)
(* Catalog creation on its own: a manager of any kind over small           *)
(* topologies with every reserved set, and over large ones.                *)
(***************************************************************************)
InitCatalog ==
    \E mode \in Modes :
        \/ \E n \in 1..MaxCPUs, layout \in SmallLayouts, resv \in SUBSET (0..(MaxCPUs - 1)) :
                /\ resv \subseteq 0..(n - 1)
                /\ NewManager(mode, MkTopology(n, layout), resv)
        \/ \E n \in LargeSizes, layout \in LargeLayouts, resv \in {{}, {0}, {1, 2}} :
                NewManager(mode, MkTopology(n, layout), resv)

CatCreateSlices ==
    /\ createRuns < MaxCreateRuns
    /\ CreateSlicesCall
    /\ UNCHANGED lastCall

NextCatalog == CatCreateSlices

SpecCatalog == InitCatalog /\ [][NextCatalog]_vars

(***************************************************************************)
(* Claim resolution on a manager alone: the catalog is created once, then  *)
(* AllocateCPUs is called with any claim, the injected getSharedCPUs       *)
(* returning any set of CPUs the store can return.                         *)
(***************************************************************************)
ModePrefix(mode) ==
    CASE mode = "individual" -> cpuDevicePrefix
      [] mode = "socket" -> cpuDeviceSocketGroupedPrefix
      [] mode = "numa" -> cpuDeviceNUMAGroupedPrefix

\* The device names of this node that claims may carry: those of the
\* catalog, which the scheduler may hold from an earlier run of the driver
\* on the same machine.
PublishedNames(mode, topo, resv) ==
    CASE mode = "individual" ->
            {DeviceName(cpuDevicePrefix, k) : k \in 0..(Cardinality(CPUIDs(topo) \ resv) - 1)}
      [] mode = "socket" ->
            {DeviceName(cpuDeviceSocketGroupedPrefix, id) :
                id \in {x \in Sockets(topo) : CPUsInSockets(topo, x) \ resv # {}}}
      [] mode = "numa" ->
            {DeviceName(cpuDeviceNUMAGroupedPrefix, id) :
                id \in {x \in NUMANodes(topo) : CPUsInNUMANodes(topo, x) \ resv # {}}}

\* A device name of the manager's format that no catalog of the model holds.
UnknownDevice(mode) == <<ModePrefix(mode), <<9, 9, 9>>>>

Consumed(n) == [k \in {cpuResourceQualifiedName} |-> Quantity(n)]

\* Results of this driver: any device name, for grouped devices with a
\* consumed capacity of 1..MaxCount or none.
OwnResults(mode, names) ==
    {AllocationResult(driverName, d, c) :
        d \in names \cup {UnknownDevice(mode)},
        c \in IF mode = "individual" THEN {EmptyMap}
              ELSE {EmptyMap} \cup {Consumed(n) : n \in 1..MaxCount}}

\* Results of another driver, naming a device this manager knows or not.
ForeignResults(mode, names) ==
    {AllocationResult(foreignDriver, UnknownDevice(mode), Consumed(MaxCount))}
    \cup (IF names = {} THEN {}
          ELSE {AllocationResult(foreignDriver, CHOOSE d \in names : TRUE, EmptyMap)})

Claims(mode, names) ==
    UNION {[1..len -> OwnResults(mode, names) \cup ForeignResults(mode, names)] :
                len \in 0..MaxResults}

\* What the injected getSharedCPUs may return: the store's answer for any
\* CPUs held by live claims.
SharedPools(topo, resv) ==
    {GetSharedCPUs(topo, resv, [uid \in {"claim-a"} |-> held]) : held \in SUBSET CPUIDs(topo)}

InitAlloc ==
    \E mode \in Modes, layout \in SmallLayouts, resv \in SUBSET (0..(MaxCPUs - 1)) :
        NewManager(mode, MkTopology(MaxCPUs, layout), resv)

AllocCreateSlices ==
    /\ createRuns = 0
    /\ CreateSlicesCall
    /\ UNCHANGED lastCall

MgrAllocateCPUs ==
    /\ createRuns > 0
    /\ ~lastCall.called
    /\ \E results \in Claims(devMgr, DOMAIN deviceNameToID),
          shared \in SharedPools(cpuTopology, reservedCPUs) :
            \E ret \in AllocateCPUs(devMgr, cpuTopology, deviceNameToID, shared, results) :
                lastCall' = [called |-> TRUE, results |-> results, shared |-> shared,
                             cpus |-> ret.cpus, err |-> ret.err]
    /\ UNCHANGED <<deviceNameToID, returned, createRuns>>
    /\ UNCHANGED mgrVars
    /\ UNCHANGED driverVars

\* The caller is done with the result; the manager serves the next call.
MgrCallDone ==
    /\ lastCall.called
    /\ lastCall' = NoCall
    /\ UNCHANGED <<deviceNameToID, returned, createRuns>>
    /\ UNCHANGED mgrVars
    /\ UNCHANGED driverVars

NextAlloc == AllocCreateSlices \/ MgrAllocateCPUs \/ MgrCallDone

SpecAlloc == InitAlloc /\ [][NextAlloc]_vars

(***************************************************************************)
(* The driver.  Start registers the plugin with the kubelet, and only then *)
(* starts PublishResources in a goroutine of its own; from registration on *)
(* the kubelet may call PrepareResourceClaims and UnprepareResourceClaims, *)
(* each call in its own goroutine.  Nothing in the driver or the managers  *)
(* orders these goroutines, so each step below is one access to the shared *)
(* index or to the allocation store.                                       *)
(***************************************************************************)
\* The machines the driver is run on: two sockets of two hyperthreads and
\* one, nothing reserved; one socket of two NUMA nodes, CPU 0 reserved.
DriverMachines ==
    {[layout |-> [sockets |-> 2, numas |-> 2, smt |-> "split"], reserved |-> {}],
     [layout |-> [sockets |-> 1, numas |-> 2, smt |-> "none"], reserved |-> {0}]}

InitDriver ==
    \E mode \in Modes, m \in DriverMachines :
        NewManager(mode, MkTopology(DriverCPUs, m.layout), m.reserved)

\* PublishResources enters CreateSlices: the devices are computed; the index
\* writes follow one by one.  A catalog without devices returns at once.
PublishBegin ==
    /\ ~fatal
    /\ publisher.pc \in {"idle", "done"}
    /\ createRuns < MaxCreateRuns
    /\ \E pick \in 0..MaxPick :
            LET r == CreateSlices(devMgr, cpuTopology, reservedCPUs, pick)
            IN  IF Len(r.writes) = 0
                THEN /\ publisher' = [pc |-> "done", pending |-> <<>>, slices |-> <<>>]
                     /\ returned' = r.slices
                     /\ createRuns' = createRuns + 1
                ELSE /\ publisher' = [pc |-> "writing", pending |-> r.writes,
                                      slices |-> r.slices]
                     /\ UNCHANGED <<returned, createRuns>>
    /\ event' = NoEvent
    /\ UNCHANGED <<deviceNameToID, lastCall, resourceClaimAllocations, worker, fatal>>
    /\ UNCHANGED mgrVars

\* One assignment mgr.deviceNameTo...[deviceName] = id; after the last one
\* CreateSlices returns its slices.
PublishWrite ==
    /\ ~fatal
    /\ publisher.pc = "writing"
    /\ deviceNameToID' = MapPut(deviceNameToID, Head(publisher.pending).name,
                                Head(publisher.pending).id)
    /\ IF Len(publisher.pending) = 1
       THEN /\ publisher' = [pc |-> "done", pending |-> <<>>, slices |-> <<>>]
            /\ returned' = publisher.slices
            /\ createRuns' = createRuns + 1
       ELSE /\ publisher' = [publisher EXCEPT !.pending = Tail(@)]
            /\ UNCHANGED <<returned, createRuns>>
    /\ event' = NoEvent
    /\ UNCHANGED <<lastCall, resourceClaimAllocations, worker, fatal>>
    /\ UNCHANGED mgrVars

\* The allocation results the kubelet may hand over for a claim.
DriverResults ==
    LET names == PublishedNames(devMgr, cpuTopology, reservedCPUs)
    IN  OwnResults(devMgr, names) \cup ForeignResults(devMgr, names)

\* prepareResourceClaim(claim) starts.  A claim without allocation returns
\* an error at once; otherwise AllocateCPUs starts its loop over the len
\* results of the claim.
PrepareBegin(w) ==
    /\ ~fatal
    /\ worker[w].pc = "idle"
    /\ \/ /\ event' = Returned(w, "prepare", "claim has no allocation", {})
          /\ UNCHANGED worker
       \/ \E len \in 0..MaxResults :
            /\ worker' = [worker EXCEPT ![w] = [pc |-> "alloc", left |-> len, acc |-> {}]]
            /\ event' = NoEvent
    /\ UNCHANGED <<deviceNameToID, returned, createRuns, lastCall, publisher,
                   resourceClaimAllocations, fatal>>
    /\ UNCHANGED mgrVars

\* What the map read mgr.deviceNameTo...[name] may yield.  While CreateSlices
\* is writing the map the read is a data race: besides the entry as it is,
\* the read may miss it.
IndexReads(name) ==
    {MapGet(deviceNameToID, name)}
    \cup (IF publisher.pc = "writing" THEN {[ok |-> FALSE, v |-> 0]} ELSE {})

\* One iteration of the loop of AllocateCPUs, on alloc, the next result of
\* the claim.  An error returns from AllocateCPUs and from
\* prepareResourceClaim.
AllocateStepOn(w, alloc) ==
    /\ ~fatal
    /\ worker[w].pc = "alloc"
    /\ worker[w].left > 0
    /\ \E lk \in IndexReads(alloc.Device) :
        \E o \in LoopBody(devMgr, cpuTopology, worker[w].acc, alloc, lk,
                          GetSharedCPUs(cpuTopology, reservedCPUs,
                                        resourceClaimAllocations)) :
            IF o.kind = "return"
            THEN /\ worker' = [worker EXCEPT ![w] = IdleWorker]
                 /\ event' = Returned(w, "prepare", o.err, o.cpus)
            ELSE /\ worker' = [worker EXCEPT ![w].left = @ - 1, ![w].acc = o.cpus]
                 /\ event' = NoEvent
    /\ UNCHANGED <<deviceNameToID, returned, createRuns, lastCall, publisher,
                   resourceClaimAllocations, fatal>>
    /\ UNCHANGED mgrVars

\* The next result is any result the kubelet may have put in the claim.
AllocateStep(w) == \E alloc \in DriverResults : AllocateStepOn(w, alloc)

\* A map read that races a map write: the Go runtime may end the process
\* ("fatal error: concurrent map read and map write"), and with it all that
\* the process held in memory.
RaceFatal(w) ==
    /\ ~fatal
    /\ worker[w].pc = "alloc"
    /\ worker[w].left > 0
    /\ publisher.pc = "writing"
    /\ fatal' = TRUE
    /\ deviceNameToID' = EmptyMap
    /\ returned' = <<>>
    /\ createRuns' = 0
    /\ publisher' = IdlePublisher
    /\ resourceClaimAllocations' = EmptyMap
    /\ worker' = [v \in Workers |-> IdleWorker]
    /\ event' = NoEvent
    /\ UNCHANGED lastCall
    /\ UNCHANGED mgrVars

\* AllocateCPUs returns its set; prepareResourceClaim stores it under the
\* claim's UID and adds the CDI device, which may fail.
PrepareFinish(w) ==
    /\ ~fatal
    /\ worker[w].pc = "alloc"
    /\ worker[w].left = 0
    /\ LET claimCPUSet == LoopExit(worker[w].acc).cpus
       IN  /\ resourceClaimAllocations' =
                AddResourceClaimAllocation(resourceClaimAllocations, w, claimCPUSet)
           /\ \E err \in {"nil", "cdi AddDevice failed"} :
                event' = Returned(w, "prepare", err, claimCPUSet)
    /\ worker' = [worker EXCEPT ![w] = IdleWorker]
    /\ UNCHANGED <<deviceNameToID, returned, createRuns, lastCall, publisher, fatal>>
    /\ UNCHANGED mgrVars

\* unprepareResourceClaim: the allocation is removed, then the CDI device,
\* whose removal may fail.
Unprepare(w) ==
    /\ ~fatal
    /\ worker[w].pc = "idle"
    /\ resourceClaimAllocations' =
            RemoveResourceClaimAllocation(resourceClaimAllocations, w)
    /\ \E err \in {"nil", "cdi RemoveDevice failed"} :
            event' = Returned(w, "unprepare", err, {})
    /\ UNCHANGED <<deviceNameToID, returned, createRuns, lastCall, publisher, worker,
                   fatal>>
    /\ UNCHANGED mgrVars

Next ==
    \/ PublishBegin
    \/ PublishWrite
    \/ \E w \in Workers :
        \/ PrepareBegin(w)
        \/ AllocateStep(w)
        \/ RaceFatal(w)
        \/ PrepareFinish(w)
        \/ Unprepare(w)

Spec == InitDriver /\ [][Next]_vars


(***************************************************************************)
(* What the properties below read off a state.                             *)
(***************************************************************************)
\* The devices of a sequence of slices, in order.
RECURSIVE Flatten(_, _)
Flatten(slices, n) ==
    IF n = 0 THEN <<>> ELSE Flatten(slices, n - 1) \o slices[n]

\* The devices the last completed CreateSlices returned.
ReturnedDevices == Flatten(returned, Len(returned))

\* The CPUs CreateSlices may publish.
EligibleCPUs == CPUIDs(cpuTopology) \ reservedCPUs

(***************************************************************************)
(* Slicing.                                                                *)
(***************************************************************************)
\* C6: every slice a grouped manager (socket or NUMA) returns from
\* CreateSlices holds at most 128 devices.
C6_GroupedSlicesWithinLimit ==
    (devMgr # "individual" /\ createRuns >= 1) =>
        \A j \in 1..Len(returned) : Len(returned[j]) <= maxDevicesPerResourceSlice

\* C7: the slices of the individual manager are the full device sequence cut
\* into consecutive chunks: every chunk but the last holds 128 devices, the
\* last between 1 and 128; in order they are the full sequence, the device of
\* index k at global position k; 300 eligible CPUs give 128, 128, 44; no
\* eligible CPU gives no slice.
C7_IndividualChunks ==
    (devMgr = "individual" /\ createRuns >= 1) =>
        LET all == IndividualDevices(cpuTopology, reservedCPUs)
            n == Len(returned)
        IN  /\ Len(all) = Cardinality(EligibleCPUs)
            /\ (n = 0) <=> (EligibleCPUs = {})
            /\ \A j \in 1..(n - 1) : Len(returned[j]) = 128
            /\ n > 0 => Len(returned[n]) \in 1..128
            /\ ReturnedDevices = [k \in 1..Len(all) |-> all[k].dev]
            /\ \A j \in 1..n : \A i \in 1..Len(returned[j]) :
                    returned[j][i].Name = DeviceName(cpuDevicePrefix, (j - 1) * 128 + i - 1)
            /\ Cardinality(EligibleCPUs) = 300 =>
                    [j \in 1..n |-> Len(returned[j])] = <<128, 128, 44>>

\* C7 happens: 300 eligible CPUs published in three slices, the last device
\* at the end of the third.
C7_Witness ==
    /\ devMgr = "individual"
    /\ createRuns >= 1
    /\ Cardinality(EligibleCPUs) = 300
    /\ Len(returned) = 3
    /\ Len(returned[3]) = 44
    /\ returned[3][44].Name = DeviceName(cpuDevicePrefix, 299)


(***************************************************************************)
(* The catalogs.                                                           *)
(***************************************************************************)
\* The elements of a sequence.
Range(s) == {s[i] : i \in 1..Len(s)}

\* The CPU IDs of a core group.
GroupCPUs(g) == {g[i].CpuID : i \in 1..Len(g)}

\* The spec's example machine: CPUs 0..3, siblings 0-2 and 1-3.
ExampleTopology ==
    /\ CPUIDs(cpuTopology) = 0..3
    /\ \A c \in 0..3 : cpuTopology.CPUDetails[c].SiblingCpuID = (c + 2) % 4

\* C13: the individual manager's catalog holds one device for each
\* non-reserved CPU of the topology and no other device, and so does the
\* index; a CPU whose sibling is absent or reserved is a group of its own, any
\* other CPU is grouped with its sibling; the example machine with CPU 2
\* reserved has 3 devices, CPU 0 alone in its group.
C13_OneDevicePerEligibleCPU ==
    (devMgr = "individual" /\ createRuns >= 1) =>
        LET devices == ReturnedDevices
            groups == Range(SortedCoreGroups(cpuTopology, reservedCPUs))
            alone(c) == LET s == cpuTopology.CPUDetails[c].SiblingCpuID
                        IN  s = NoSibling \/ s \in reservedCPUs
        IN  /\ Len(devices) = Cardinality(EligibleCPUs)
            /\ {devices[k].Attributes["dra.cpu/cpuID"].IntValue : k \in 1..Len(devices)}
                    = EligibleCPUs
            /\ Cardinality(DOMAIN deviceNameToID) = Cardinality(EligibleCPUs)
            /\ {deviceNameToID[name] : name \in DOMAIN deviceNameToID} = EligibleCPUs
            /\ \A c \in EligibleCPUs :
                    \E g \in groups :
                        /\ c \in GroupCPUs(g)
                        /\ GroupCPUs(g) =
                                IF alone(c) THEN {c}
                                ELSE {c, cpuTopology.CPUDetails[c].SiblingCpuID}
            /\ (ExampleTopology /\ reservedCPUs = {2}) =>
                    /\ Len(devices) = 3
                    /\ \E g \in groups : GroupCPUs(g) = {0}

\* C13 happens: the example machine with CPU 2 reserved, three devices
\* published.
C13_Witness ==
    /\ devMgr = "individual"
    /\ createRuns >= 1
    /\ ExampleTopology
    /\ reservedCPUs = {2}
    /\ Len(ReturnedDevices) = 3
    /\ {deviceNameToID[name] : name \in DOMAIN deviceNameToID} = {0, 1, 3}

\* The lowest CPU of the core group of c: c itself, or its sibling when the
\* sibling is published too and lower.
LowestOfGroup(c) ==
    LET s == cpuTopology.CPUDetails[c].SiblingCpuID
    IN  IF s # NoSibling /\ s \notin reservedCPUs /\ s < c THEN s ELSE c

\* C14: the names of the individual manager's devices are cpudev000,
\* cpudev001, ... without a gap, in the order of the catalog; the devices
\* follow the order of their core groups' lowest CPU IDs; two siblings that
\* are both published sit at adjacent indices; the example machine with
\* nothing reserved publishes CPUs 0, 2, 1, 3 in that order.
C14_SequentialIndicesSiblingsAdjacent ==
    (devMgr = "individual" /\ createRuns >= 1) =>
        LET devices == ReturnedDevices
            n == Cardinality(EligibleCPUs)
            cpuAt(k) == deviceNameToID[DeviceName(cpuDevicePrefix, k)]
        IN  /\ Len(devices) = n
            /\ DOMAIN deviceNameToID = {DeviceName(cpuDevicePrefix, k) : k \in 0..(n - 1)}
            /\ \A k \in 0..(n - 1) :
                    /\ devices[k + 1].Name = DeviceName(cpuDevicePrefix, k)
                    /\ devices[k + 1].Attributes["dra.cpu/cpuID"].IntValue = cpuAt(k)
            /\ \A k \in 0..(n - 2) : LowestOfGroup(cpuAt(k)) <= LowestOfGroup(cpuAt(k + 1))
            /\ \A k \in 0..(n - 1) :
                    LET c == cpuAt(k)
                        s == cpuTopology.CPUDetails[c].SiblingCpuID
                    IN  (s # NoSibling /\ s \notin reservedCPUs /\ c < s) =>
                            k + 1 <= n - 1 /\ cpuAt(k + 1) = s
            /\ (ExampleTopology /\ reservedCPUs = {}) =>
                    [k \in 0..3 |-> cpuAt(k)] = [k \in 0..3 |-> <<0, 2, 1, 3>>[k + 1]]

\* C14 happens: the example machine with nothing reserved, cpudev001 backed
\* by CPU 2 and cpudev002 by CPU 1.
C14_Witness ==
    /\ devMgr = "individual"
    /\ createRuns >= 1
    /\ ExampleTopology
    /\ reservedCPUs = {}
    /\ Len(ReturnedDevices) = 4
    /\ deviceNameToID[DeviceName(cpuDevicePrefix, 1)] = 2
    /\ deviceNameToID[DeviceName(cpuDevicePrefix, 2)] = 1

\* The attribute that reports the coordinate a device stands for.
CoordinateKey(mode) ==
    CASE mode = "individual" -> "dra.cpu/cpuID"
      [] mode = "socket" -> "dra.cpu/socketID"
      [] mode = "numa" -> "dra.cpu/numaNodeID"

\* The coordinates of the topology a grouped manager groups by.
Coordinates == IF devMgr = "socket" THEN Sockets(cpuTopology) ELSE NUMANodes(cpuTopology)

\* The CPUs of a coordinate that are not reserved.
AllocatableIn(id) == CPUsInCoordinate(devMgr, cpuTopology, id) \ reservedCPUs

\* The coordinates with at least one non-reserved CPU.
LiveCoordinates == {id \in Coordinates : AllocatableIn(id) # {}}

\* C15: a grouped manager's catalog holds one device for each socket (NUMA
\* node) that has a non-reserved CPU, and the index one entry for it under
\* the device's name; a socket (NUMA node) whose CPUs are all reserved has
\* neither a device nor an index entry.
C15_DeviceIffAllocatable ==
    (devMgr # "individual" /\ createRuns >= 1) =>
        LET devices == ReturnedDevices
            nameOf(id) == DeviceName(ModePrefix(devMgr), id)
        IN  /\ Len(devices) = Cardinality(LiveCoordinates)
            /\ {devices[k].Attributes[CoordinateKey(devMgr)].IntValue : k \in 1..Len(devices)}
                    = LiveCoordinates
            /\ \A k \in 1..Len(devices) :
                    devices[k].Name =
                        nameOf(devices[k].Attributes[CoordinateKey(devMgr)].IntValue)
            /\ DOMAIN deviceNameToID = {nameOf(id) : id \in LiveCoordinates}
            /\ \A id \in LiveCoordinates : deviceNameToID[nameOf(id)] = id
            /\ \A id \in Coordinates \ LiveCoordinates :
                    /\ nameOf(id) \notin DOMAIN deviceNameToID
                    /\ \A k \in 1..Len(devices) : devices[k].Name # nameOf(id)

\* C15 happens: a socket manager over two sockets, every CPU of socket 0
\* reserved, socket 1 published alone.
C15_Witness ==
    /\ devMgr = "socket"
    /\ createRuns >= 1
    /\ Sockets(cpuTopology) = {0, 1}
    /\ CPUsInSockets(cpuTopology, 0) \subseteq reservedCPUs
    /\ Len(ReturnedDevices) = 1
    /\ DOMAIN deviceNameToID = {DeviceName(cpuDeviceSocketGroupedPrefix, 1)}

\* C16: the capacity of every device of a grouped manager, and its numCPUs
\* attribute, is the number of CPUs of its socket (NUMA node) minus the
\* number of reserved CPUs among them.
C16_CapacityIsAllocatableCount ==
    (devMgr # "individual" /\ createRuns >= 1) =>
        \A k \in 1..Len(ReturnedDevices) :
            LET dev == ReturnedDevices[k]
                all == CPUsInCoordinate(devMgr, cpuTopology,
                                        dev.Attributes[CoordinateKey(devMgr)].IntValue)
                expected == Cardinality(all) - Cardinality(all \cap reservedCPUs)
            IN  /\ DOMAIN dev.Capacity = {cpuResourceQualifiedName}
                /\ dev.Capacity[cpuResourceQualifiedName].Value = expected
                /\ dev.Attributes["dra.cpu/numCPUs"].IntValue = expected

\* C16 happens: a NUMA manager has published a node of two CPUs, one of
\* them reserved, with capacity 1.
C16_Witness ==
    /\ devMgr = "numa"
    /\ createRuns >= 1
    /\ \E k \in 1..Len(ReturnedDevices) :
        LET dev == ReturnedDevices[k]
            all == CPUsInNUMANodes(cpuTopology, dev.Attributes["dra.cpu/numaNodeID"].IntValue)
        IN  /\ Cardinality(all) = 2
            /\ Cardinality(all \cap reservedCPUs) = 1
            /\ dev.Capacity[cpuResourceQualifiedName].Value = 1
            /\ dev.Attributes["dra.cpu/numCPUs"].IntValue = 1

(***************************************************************************)
(* The manager alone: catalog, index and claim resolution.                 *)
(***************************************************************************)
\* The results of a claim that name this driver, in order.
OwnOnly(results) == SelectSeq(results, LAMBDA a : a.Driver = driverName)

\* The results of the last call that name this driver and a device the
\* index does not hold.
UnknownOwn ==
    {i \in 1..Len(lastCall.results) :
        /\ lastCall.results[i].Driver = driverName
        /\ lastCall.results[i].Device \notin DOMAIN deviceNameToID}

LookupErrors ==
    {"device not found in device to CPU ID map", "no valid ID found for device"}

\* What the last call could have returned for the given results.
Outcomes(results) ==
    AllocateCPUs(devMgr, cpuTopology, deviceNameToID, lastCall.shared, results)

CatalogResolvable ==
    LET devs == ReturnedDevices
    IN  /\ \A i, j \in 1..Len(devs) : devs[i].Name = devs[j].Name => i = j
        /\ \A i \in 1..Len(devs) :
                /\ devs[i].Name \in DOMAIN deviceNameToID
                /\ deviceNameToID[devs[i].Name] =
                        devs[i].Attributes[CoordinateKey(devMgr)].IntValue

C4_NamesResolvable ==
    /\ [](createRuns >= 1 => CatalogResolvable)
    /\ [][(~lastCall.called /\ lastCall'.called) => deviceNameToID' = deviceNameToID]_vars

\* C4 happens: a catalog of several devices, and a claim resolved against it.
C4_Witness ==
    /\ createRuns >= 1
    /\ Len(ReturnedDevices) >= 2
    /\ lastCall.called
    /\ lastCall.err = "nil"
    /\ lastCall.cpus # {}

\* C9: a claim with a result of this driver that names a device absent from
\* the index is refused: AllocateCPUs returns an error and the empty set,
\* and the error is the lookup's when every result before it resolves.
C9_UnknownDeviceAborts ==
    (lastCall.called /\ UnknownOwn # {}) =>
        /\ lastCall.err # "nil"
        /\ lastCall.cpus = {}
        /\ LET first == MinOf(UnknownOwn)
           IN  (\A r \in Outcomes(SubSeq(lastCall.results, 1, first - 1)) : r.err = "nil")
                    => lastCall.err \in LookupErrors

\* C9 happens: the first result resolves to CPUs, the second names an
\* unknown device.
C9_Witness ==
    /\ lastCall.called
    /\ Len(lastCall.results) = 2
    /\ UnknownOwn = {2}
    /\ lastCall.results[1].Driver = driverName
    /\ \E r \in Outcomes(SubSeq(lastCall.results, 1, 1)) : r.err = "nil" /\ r.cpus # {}
    /\ lastCall.err \in LookupErrors
    /\ lastCall.cpus = {}

\* C10: results of another driver are passed over: what a claim can resolve
\* to is what the claim without them can resolve to, and a claim of foreign
\* results only resolves to the empty set without error.
C10_ForeignResultsSkipped ==
    lastCall.called =>
        /\ Outcomes(lastCall.results) = Outcomes(OwnOnly(lastCall.results))
        /\ [cpus |-> lastCall.cpus, err |-> lastCall.err] \in Outcomes(OwnOnly(lastCall.results))
        /\ OwnOnly(lastCall.results) = <<>> => (lastCall.err = "nil" /\ lastCall.cpus = {})

\* C10 happens: a claim with a foreign result that names an unknown device
\* and a result of this driver resolves to CPUs.
C10_Witness ==
    /\ lastCall.called
    /\ lastCall.err = "nil"
    /\ lastCall.cpus # {}
    /\ \E i \in 1..Len(lastCall.results) :
            /\ lastCall.results[i].Driver = foreignDriver
            /\ lastCall.results[i].Device \notin DOMAIN deviceNameToID


(***************************************************************************)
(* The driver: goroutines over the index and the allocation store.         *)
(***************************************************************************)
\* The free pool as the store reports it now.
SharedNow == GetSharedCPUs(cpuTopology, reservedCPUs, resourceClaimAllocations)

NotEnoughCPUs == "not enough cpus available to satisfy request"

\* alloc is a result of this driver for a published grouped device whose
\* pool, as it is now, holds fewer CPUs than alloc asks for.
PoolTooSmall(alloc) ==
    /\ devMgr # "individual"
    /\ alloc.Driver = driverName
    /\ alloc.Device \in DOMAIN deviceNameToID
    /\ Cardinality(SharedNow \cap CPUsInCoordinate(devMgr, cpuTopology,
                                                   deviceNameToID[alloc.Device]))
            < ClaimCPUCount(alloc)

\* C1: with a grouped manager, the CPU sets the store holds for two
\* different claims never share a CPU.
C1_LiveClaimsDisjoint ==
    devMgr # "individual" =>
        \A u, v \in DOMAIN resourceClaimAllocations :
            u # v => resourceClaimAllocations[u] \cap resourceClaimAllocations[v] = {}

\* C3: an iteration of the AllocateCPUs loop is only taken once CreateSlices
\* has returned.
C3_CatalogBeforeResolution ==
    [][(\E w \in Workers : AllocateStep(w)) => createRuns >= 1]_vars

\* C5: once the first catalog is complete, an iteration of the AllocateCPUs
\* loop never finds CreateSlices in the middle of its index writes.
C5_RebuildAsUnit ==
    [][(createRuns >= 1 /\ \E w \in Workers : AllocateStep(w) \/ RaceFatal(w))
            => publisher.pc # "writing"]_vars

\* C8: when the loop of AllocateCPUs comes to a result whose pool is too
\* small, prepareResourceClaim returns an error with an empty CPU set, the
\* remaining results are left unvisited and the allocation store is as
\* before; the error is the packing primitive's unless the index is being
\* written at that moment (the lookup may then miss the device).
C8_InsufficientPoolFails ==
    [][\A w \in Workers :
            (worker[w].pc = "alloc" /\ worker[w].left > 0 /\ devMgr # "individual") =>
                \A alloc \in DriverResults :
                    (PoolTooSmall(alloc) /\ AllocateStepOn(w, alloc)) =>
                        /\ event'.who = w
                        /\ event'.op = "prepare"
                        /\ event'.err # "nil"
                        /\ event'.cpus = {}
                        /\ publisher.pc # "writing" => event'.err = NotEnoughCPUs
                        /\ worker'[w] = IdleWorker
                        /\ resourceClaimAllocations' = resourceClaimAllocations]_vars

\* C8 happens: claim-b is refused for lack of CPUs while claim-a holds CPUs,
\* and claim-b holds nothing.
C8_Witness ==
    /\ event = Returned("claim-b", "prepare", NotEnoughCPUs, {})
    /\ "claim-a" \in DOMAIN resourceClaimAllocations
    /\ resourceClaimAllocations["claim-a"] # {}
    /\ "claim-b" \notin DOMAIN resourceClaimAllocations
    /\ worker["claim-b"] = IdleWorker

\* C11: a claim none of whose results names this driver (no result at all,
\* or foreign results only) resolves to the empty CPU set and no error, in
\* every manager.
C11_NoOwnResultsEmptySet ==
    (lastCall.called /\ OwnOnly(lastCall.results) = <<>>) =>
        /\ lastCall.err = "nil"
        /\ lastCall.cpus = {}
        /\ Outcomes(lastCall.results) = {[cpus |-> {}, err |-> "nil"]}

\* C11 happens: a claim of foreign results only has been resolved.
C11_Witness ==
    /\ lastCall.called
    /\ Len(lastCall.results) = MaxResults
    /\ \A i \in 1..Len(lastCall.results) : lastCall.results[i].Driver = foreignDriver
    /\ lastCall.err = "nil"
    /\ lastCall.cpus = {}

\* C12: with a grouped manager, an iteration of the AllocateCPUs loop that
\* resolves a result of this driver takes its CPUs from the coordinate's CPUs
\* that are free in the allocation store as it is at that step: nothing it
\* adds is held by a stored claim, whatever the store held at earlier steps
\* or calls.
C12_LivePoolPerResult ==
    [][\A w \in Workers :
            (worker[w].pc = "alloc" /\ worker[w].left > 0 /\ devMgr # "individual") =>
                \A alloc \in DriverResults :
                    (/\ alloc.Driver = driverName
                     /\ AllocateStepOn(w, alloc)
                     /\ worker'[w].pc = "alloc") =>
                        /\ alloc.Device \in DOMAIN deviceNameToID
                        /\ LET pool == SharedNow \cap
                                    CPUsInCoordinate(devMgr, cpuTopology,
                                                     deviceNameToID[alloc.Device])
                               added == worker'[w].acc \ worker[w].acc
                           IN  /\ added \subseteq pool
                               /\ Cardinality(worker'[w].acc \cap pool) >= ClaimCPUCount(alloc)
                               /\ \A u \in DOMAIN resourceClaimAllocations :
                                    added \cap resourceClaimAllocations[u] = {}]_vars

\* C12 happens: claim-a is stored with two CPUs, and the loop of claim-b,
\* running after that, has taken the one CPU left.
C12_Witness ==
    /\ devMgr # "individual"
    /\ "claim-a" \in DOMAIN resourceClaimAllocations
    /\ Cardinality(resourceClaimAllocations["claim-a"]) = 2
    /\ worker["claim-b"].pc = "alloc"
    /\ Cardinality(worker["claim-b"].acc) = 1
    /\ worker["claim-b"].acc \cap resourceClaimAllocations["claim-a"] = {}
    /\ SharedNow \ worker["claim-b"].acc = {}

\* The results of the last call that name this driver.
LastOwn == OwnOnly(lastCall.results)

\* The pool a grouped manager resolves alloc in during the last call: the
\* CPUs of the device's coordinate that getSharedCPUs reported free.
LastPool(alloc) ==
    lastCall.shared \cap CPUsInCoordinate(devMgr, cpuTopology, deviceNameToID[alloc.Device])

\* C17: a grouped manager resolving a claim with one result of this driver,
\* for a device of the index, that asks for N CPUs (0 when the consumed
\* capacity is absent), the pool holding at least N: AllocateCPUs returns no
\* error and exactly N CPUs, all of them free CPUs of the device's coordinate.
C17_SingleResultExactCount ==
    (/\ devMgr # "individual"
     /\ lastCall.called
     /\ Len(LastOwn) = 1
     /\ LastOwn[1].Device \in DOMAIN deviceNameToID
     /\ Cardinality(LastPool(LastOwn[1])) >= ClaimCPUCount(LastOwn[1])) =>
        LET N == IF cpuResourceQualifiedName \in DOMAIN LastOwn[1].ConsumedCapacity
                 THEN LastOwn[1].ConsumedCapacity[cpuResourceQualifiedName].Value
                 ELSE 0
        IN  /\ lastCall.err = "nil"
            /\ Cardinality(lastCall.cpus) = N
            /\ lastCall.cpus \subseteq LastPool(LastOwn[1])
            /\ \A ret \in Outcomes(lastCall.results) :
                    /\ ret.err = "nil"
                    /\ Cardinality(ret.cpus) = N
                    /\ ret.cpus \subseteq LastPool(LastOwn[1])

\* C17 happens: one result asking for MaxCount CPUs of a coordinate in which
\* a CPU is held by another claim, resolved with MaxCount CPUs.
C17_Witness ==
    /\ devMgr # "individual"
    /\ lastCall.called
    /\ Len(LastOwn) = 1
    /\ LastOwn[1].Device \in DOMAIN deviceNameToID
    /\ ClaimCPUCount(LastOwn[1]) = MaxCount
    /\ lastCall.err = "nil"
    /\ Cardinality(lastCall.cpus) = MaxCount
    /\ (CPUsInCoordinate(devMgr, cpuTopology, deviceNameToID[LastOwn[1].Device])
            \ reservedCPUs) \ lastCall.shared # {}

\* The CPUs the results of this driver in results[1..n] ask for, added up.
RECURSIVE RequestedCPUs(_, _)
RequestedCPUs(results, n) ==
    IF n = 0 THEN 0
    ELSE RequestedCPUs(results, n - 1)
            + (IF results[n].Driver = driverName THEN ClaimCPUCount(results[n]) ELSE 0)

\* C18: a grouped manager that resolves a claim without error returns as
\* many CPUs as the claim's results of this driver ask for in total: the
\* selections made for different results share no CPU.
C18_ResultsNeverOverlap ==
    (devMgr # "individual" /\ lastCall.called /\ lastCall.err = "nil") =>
        Cardinality(lastCall.cpus) = RequestedCPUs(lastCall.results, Len(lastCall.results))

\* C19: a step in which prepareResourceClaim returns an error (no
\* allocation, a failed AllocateCPUs, a failed CDI AddDevice) leaves the
\* allocation store and the free pool as they were, the claim without an
\* allocation if it had none.
C19_FailedPrepareLeavesNoAllocation ==
    [][(event'.op = "prepare" /\ event'.err # "nil") =>
            /\ resourceClaimAllocations' = resourceClaimAllocations
            /\ SharedNow' = SharedNow]_vars

\* C20: unprepareResourceClaim on a prepared claim, whether the CDI removal
\* succeeds or fails, takes the claim's allocation out of the store, leaves
\* the other claims' allocations alone, and (grouped managers) puts every CPU
\* the claim held back into the free pool that the next AllocateCPUs reads.
C20_UnprepareFreesCPUs ==
    [][\A w \in Workers :
            (w \in DOMAIN resourceClaimAllocations /\ Unprepare(w)) =>
                /\ w \notin DOMAIN resourceClaimAllocations'
                /\ \A u \in DOMAIN resourceClaimAllocations \ {w} :
                        /\ u \in DOMAIN resourceClaimAllocations'
                        /\ resourceClaimAllocations'[u] = resourceClaimAllocations[u]
                /\ devMgr # "individual" => resourceClaimAllocations[w] \subseteq SharedNow']_vars

\* C21: a CreateSlices call on a manager that has already built its catalog
\* returns the catalog the call before it returned (the same devices in the
\* same order and slices, with the same attributes and capacities) and
\* leaves the index as it was.
C21_CreateSlicesIdempotent ==
    [][(createRuns >= 1 /\ createRuns' = createRuns + 1) =>
            /\ returned' = returned
            /\ deviceNameToID' = deviceNameToID]_vars

====
